---- MODULE Spec2Model ----
(***************************************************************************)
(* Recognition backbones of PytorchOCR:                                    *)
(*   torchocr/networks/backbones/RecMobileNetV3.py  (MobileNetV3)          *)
(*   torchocr/networks/backbones/rec_resnet_vd.py   (ResNet, "vd")         *)
(*                                                                         *)
(* Three specifications over one set of variables:                         *)
(*   SpecDivisible  make_divisible applied to a raw width                  *)
(*   Spec           construction (and one forward pass) of both backbones  *)
(*   SpecImport     load_3rd_state_dict on a constructed MobileNetV3       *)
(*                                                                         *)
(* Numbers.  A raw width v is a Python float; it is carried here as the    *)
(* integer 100 * v (hundredths), which is exact for every product          *)
(* scale * width the constructors form and for the decimal inputs of the   *)
(* rounding rule.  A scale is carried the same way (0.35 is 35).           *)
(***************************************************************************)
EXTENDS Integers, Sequences, FiniteSets, TLC

VARIABLES
    pc,             \* position of the running operation
    args,           \* arguments of the running constructor / call
    raised,         \* exception that reached the caller, "none" if none
    v, new_v,       \* make_divisible: argument (hundredths) and result
    cfg,            \* MobileNetV3: self.cfg
    cls_ch_squeeze, \* MobileNetV3: self.cls_ch_squeeze
    inplanes,       \* MobileNetV3.__init__: local inplanes
    in_ch,          \* ResNet.__init__: local in_ch
    created,        \* sub-modules created so far, in creation order
    conv1,          \* self.conv1 (stem), NoneModule while unset
    block_list,     \* block list being filled by the constructor loop
    stages,         \* ResNet: self.stages
    conv2,          \* MobileNetV3: self.conv2 (head), NoneModule while unset
    self_out_channels, \* self.out_channels, 0 while unset
    fwd,            \* result of forward(x)
    params,         \* parameter name -> tensor held by the instance
    call,           \* the import call being served
    foreign_state,  \* import: the foreign checkpoint map (_state)
    ipos,           \* import: index in the walk of the unit served next
    reads           \* import: keys of the foreign map read so far

vars == <<pc, args, raised, v, new_v, cfg, cls_ch_squeeze, inplanes, in_ch,
          created, conv1, block_list, stages, conv2, self_out_channels, fwd,
          params, call, foreign_state, ipos, reads>>

buildVars == <<cfg, cls_ch_squeeze, inplanes, in_ch, created, conv1,
               block_list, stages, conv2, self_out_channels, fwd>>
importVars == <<params, call, foreign_state, ipos, reads>>
divVars == <<v, new_v>>

NoArgs == [family |-> "none"]
NoFwd == [status |-> "none"]
NoState == [keys |-> {}, bits |-> 0]
NoCall == [kind |-> "none", path |-> "", k |-> 0, index |-> 0, prefix |-> "",
           tag |-> "none", state |-> NoState, walk |-> <<>>]
NoneModule == [kind |-> "None"]

(***************************************************************************)
(* Python values                                                           *)
(***************************************************************************)
\* A stride is an int or a (vertical, horizontal) pair: an int n is <<n>>.
PyInt(n) == <<n>>
PyPair(a, b) == <<a, b>>
\* Python's  stride != n  for an int n: a tuple never equals an int.
PyNeInt(s, n) == IF Len(s) = 1 THEN s[1] # n ELSE TRUE

Max(a, b) == IF a >= b THEN a ELSE b

(***************************************************************************)
(* MobileNetV3.make_divisible(v, divisor=8, min_value=None), v = vh / 100  *)
(***************************************************************************)
\* mutant: truncates v instead of rounding it to the nearest multiple
make_divisible_floor(vh) ==
    LET divisor == 8
        min_value == divisor
        cand == Max(min_value, ((vh \div 100) \div divisor) * divisor)
    IN  IF cand * 1000 < 9 * vh THEN cand + divisor ELSE cand

make_divisible(vh) ==
    LET divisor == 8
        min_value == divisor                       \* min_value is None
        \* int(v + divisor / 2) // divisor * divisor
        cand == Max(min_value,
                    (((vh + 50 * divisor) \div 100) \div divisor) * divisor)
    IN  \* new_v < 0.9 * v
        IF cand * 1000 < 9 * vh THEN cand + divisor ELSE cand

(***************************************************************************)
(* Specification SpecDivisible                                             *)
(***************************************************************************)
MaxV == 4500

SupportedScale == {35, 50, 75, 100, 125}
Widths == {16, 24, 40, 48, 64, 72, 80, 88, 96, 112, 120, 144, 160, 184, 200,
           240, 288, 480, 576, 672, 960}
DivInputs == (0 .. MaxV) \cup {s * c : s \in SupportedScale, c \in Widths}

DivInit ==
    /\ pc = "d_call"
    /\ v \in DivInputs
    /\ new_v = 0
    /\ args = NoArgs /\ raised = "none"
    /\ cfg = <<>> /\ cls_ch_squeeze = 0 /\ inplanes = 0 /\ in_ch = 0
    /\ created = <<>> /\ conv1 = NoneModule /\ block_list = <<>> /\ stages = <<>>
    /\ conv2 = NoneModule /\ self_out_channels = 0 /\ fwd = NoFwd
    /\ params = <<>> /\ call = NoCall /\ foreign_state = NoState
    /\ ipos = 0 /\ reads = {}

MakeDivisible ==
    /\ pc = "d_call"
    /\ new_v' = make_divisible(v)
    /\ pc' = "d_done"
    /\ UNCHANGED <<args, raised, v, buildVars, importVars>>

DivNext == MakeDivisible

SpecDivisible == DivInit /\ [][DivNext]_vars

(***************************************************************************)
(* Sub-modules (RecMobileNetV3.py)                                         *)
(***************************************************************************)
\* act string -> activation module held in self.act
ActOf(act) ==
    IF act = "relu" THEN "ReLU"
    ELSE IF act = "hard_swish" THEN "HSwish"
    ELSE "None"

ConvBNACT(in_channels, out_channels, kernel_size, stride, padding, groups, act) ==
    [kind |-> "ConvBNACT",
     conv |-> [in_channels |-> in_channels, out_channels |-> out_channels,
               kernel_size |-> kernel_size, stride |-> stride,
               padding |-> padding, groups |-> groups, bias |-> FALSE],
     bn   |-> [num_features |-> out_channels],
     act  |-> ActOf(act)]

SEBlock(in_channels, out_channels) ==
    LET ratio == 4
        num_mid_filter == out_channels \div ratio
    IN  [kind  |-> "SEBlock",
         pool  |-> [output_size |-> 1],
         conv1 |-> [in_channels |-> in_channels, out_channels |-> num_mid_filter,
                    kernel_size |-> 1, bias |-> TRUE],
         conv2 |-> [in_channels |-> num_mid_filter, out_channels |-> out_channels,
                    kernel_size |-> 1, bias |-> TRUE]]

\* mutant: the shortcut test forgets the stride
ResidualUnit_shape_only(num_in_filter, num_mid_filter, num_out_filter, stride, kernel_size, act, use_se) ==
    [kind  |-> "ResidualUnit",
     conv0 |-> ConvBNACT(num_in_filter, num_mid_filter, 1, PyInt(1), 0, 1, act),
     conv1 |-> ConvBNACT(num_mid_filter, num_mid_filter, kernel_size, stride,
                         (kernel_size - 1) \div 2, num_mid_filter, act),
     se    |-> IF use_se THEN SEBlock(num_mid_filter, num_mid_filter)
               ELSE NoneModule,
     conv2 |-> ConvBNACT(num_mid_filter, num_out_filter, 1, PyInt(1), 0, 1, "None"),
     not_add |-> num_in_filter # num_out_filter]

ResidualUnit(num_in_filter, num_mid_filter, num_out_filter, stride, kernel_size, act, use_se) ==
    [kind  |-> "ResidualUnit",
     conv0 |-> ConvBNACT(num_in_filter, num_mid_filter, 1, PyInt(1), 0, 1, act),
     conv1 |-> ConvBNACT(num_mid_filter, num_mid_filter, kernel_size, stride,
                         (kernel_size - 1) \div 2, num_mid_filter, act),
     se    |-> IF use_se THEN SEBlock(num_mid_filter, num_mid_filter)
               ELSE NoneModule,
     conv2 |-> ConvBNACT(num_mid_filter, num_out_filter, 1, PyInt(1), 0, 1, "None"),
     not_add |-> (num_in_filter # num_out_filter) \/ PyNeInt(stride, 1)]

MaxPool2d(kernel_size, stride, padding) ==
    [kind |-> "MaxPool2d", kernel_size |-> kernel_size, stride |-> stride,
     padding |-> padding]

(***************************************************************************)
(* MobileNetV3 configuration tables                                        *)
(***************************************************************************)
Row(k, exp, c, se, nl, s) == [k |-> k, exp |-> exp, c |-> c, se |-> se, nl |-> nl, s |-> s]

LargeCfg ==
    << Row(3, 16, 16, FALSE, "relu", PyInt(1)),
       Row(3, 64, 24, FALSE, "relu", PyPair(2, 1)),
       Row(3, 72, 24, FALSE, "relu", PyInt(1)),
       Row(5, 72, 40, TRUE, "relu", PyPair(2, 1)),
       Row(5, 120, 40, TRUE, "relu", PyInt(1)),
       Row(5, 120, 40, TRUE, "relu", PyInt(1)),
       Row(3, 240, 80, FALSE, "hard_swish", PyInt(1)),
       Row(3, 200, 80, FALSE, "hard_swish", PyInt(1)),
       Row(3, 184, 80, FALSE, "hard_swish", PyInt(1)),
       Row(3, 184, 80, FALSE, "hard_swish", PyInt(1)),
       Row(3, 480, 112, TRUE, "hard_swish", PyInt(1)),
       Row(3, 672, 112, TRUE, "hard_swish", PyInt(1)),
       Row(5, 672, 160, TRUE, "hard_swish", PyPair(2, 1)),
       Row(5, 960, 160, TRUE, "hard_swish", PyInt(1)),
       Row(5, 960, 160, TRUE, "hard_swish", PyInt(1)) >>

SmallCfg ==
    << Row(3, 16, 16, TRUE, "relu", PyPair(2, 1)),
       Row(3, 72, 24, FALSE, "relu", PyPair(2, 1)),
       Row(3, 88, 24, FALSE, "relu", PyInt(1)),
       Row(5, 96, 40, TRUE, "hard_swish", PyPair(2, 1)),
       Row(5, 240, 40, TRUE, "hard_swish", PyInt(1)),
       Row(5, 240, 40, TRUE, "hard_swish", PyInt(1)),
       Row(5, 120, 48, TRUE, "hard_swish", PyInt(1)),
       Row(5, 144, 48, TRUE, "hard_swish", PyInt(1)),
       Row(5, 288, 96, TRUE, "hard_swish", PyPair(2, 1)),
       Row(5, 576, 96, TRUE, "hard_swish", PyInt(1)),
       Row(5, 576, 96, TRUE, "hard_swish", PyInt(1)) >>

LargeSqueeze == 960
SmallSqueeze == 576
ClsChExpand == 1280
InitInplanes == 16
DefaultScale == 50

\* the scales of the backbones SpecImport imports into: the import reads no
\* channel count, and the units and their keys are the same at every scale
ImportScales == {DefaultScale}

CfgOf(model_name) == IF model_name = "large" THEN LargeCfg ELSE SmallCfg
SqueezeOf(model_name) == IF model_name = "large" THEN LargeSqueeze ELSE SmallSqueeze

\* the residual unit the constructor loop builds for one row
BlockOfRow(inpl, scale, layer_cfg) ==
    ResidualUnit(inpl,
                 make_divisible(scale * layer_cfg.exp),
                 make_divisible(scale * layer_cfg.c),
                 layer_cfg.s, layer_cfg.k, layer_cfg.nl, layer_cfg.se)

StemConv(in_channels, inpl, scale) ==
    ConvBNACT(in_channels, make_divisible(inpl * scale), 3, PyInt(2), 1, 1, "hard_swish")

\* mutant: the head widens to cls_ch_expand instead of cls_ch_squeeze
HeadConv_expand(inpl, scale, squeeze) ==
    ConvBNACT(inpl, make_divisible(scale * ClsChExpand), 1, PyInt(1), 0, 1, "hard_swish")

HeadConv(inpl, scale, squeeze) ==
    ConvBNACT(inpl, make_divisible(scale * squeeze), 1, PyInt(1), 0, 1, "hard_swish")

(***************************************************************************)
(* forward() of the MobileNetV3 sub-modules.  A tensor is its channel      *)
(* count and the operators applied to the unit's input so far; the tensor  *)
(* runtime refuses a convolution whose input has the wrong channel count.  *)
(***************************************************************************)
Tensor(c) == [status |-> "ok", c |-> c, ops |-> <<>>]
Failed(x, exc) == [status |-> exc, c |-> x.c, ops |-> x.ops]

ConvBNACT_forward(m, x, name) ==
    IF x.status # "ok" THEN x
    ELSE IF x.c # m.conv.in_channels THEN Failed(x, "RuntimeError")
    ELSE [status |-> "ok", c |-> m.conv.out_channels, ops |-> Append(x.ops, name)]

SEBlock_forward(m, x) ==
    IF x.status # "ok" THEN x
    ELSE IF x.c # m.conv1.in_channels \/ m.conv2.out_channels # x.c
         THEN Failed(x, "RuntimeError")
    ELSE [status |-> "ok", c |-> x.c, ops |-> Append(x.ops, "se")]

ResidualUnit_forward(u, x) ==
    LET y0 == ConvBNACT_forward(u.conv0, x, "conv0")
        y1 == ConvBNACT_forward(u.conv1, y0, "conv1")
        y2 == IF u.se.kind # "None" THEN SEBlock_forward(u.se, y1) ELSE y1
        y3 == ConvBNACT_forward(u.conv2, y2, "conv2")
    IN  IF y3.status = "ok" /\ u.not_add = FALSE
        THEN IF y3.c # x.c THEN Failed(y3, "RuntimeError")
             ELSE [y3 EXCEPT !.ops = Append(@, "add_x")]
        ELSE y3

(***************************************************************************)
(* MobileNetV3.__init__(in_channels, scale=0.5, model_name='large')        *)
(***************************************************************************)
InChannels == {1, 3}
ModelNames == {"large", "small", "huge"}
Scales == SupportedScale \cup {0, 60, 200}

\* lines 138-181: scale, model_name, inplanes, the configuration table
MobileSelectCfg ==
    /\ pc = "m_name"
    /\ IF args.model_name \in {"large", "small"}
       THEN /\ cfg' = CfgOf(args.model_name)
            /\ cls_ch_squeeze' = SqueezeOf(args.model_name)
            /\ pc' = "m_scale"
            /\ UNCHANGED raised
       ELSE /\ raised' = "NotImplementedError"
            /\ pc' = "raised"
            /\ UNCHANGED <<cfg, cls_ch_squeeze>>
    /\ inplanes' = InitInplanes
    /\ UNCHANGED <<args, divVars, in_ch, created, conv1, block_list, stages,
                   conv2, self_out_channels, fwd, importVars>>

\* mutant: the scale is not validated
MobileCheckScale_unchecked ==
    /\ pc = "m_scale"
    /\ pc' = "m_stem"
    /\ UNCHANGED <<args, raised, divVars, buildVars, importVars>>

\* lines 183-185: assert self.scale in supported_scale
MobileCheckScale ==
    /\ pc = "m_scale"
    /\ IF args.scale \in SupportedScale
       THEN pc' = "m_stem" /\ UNCHANGED raised
       ELSE pc' = "raised" /\ raised' = "AssertionError"
    /\ UNCHANGED <<args, divVars, buildVars, importVars>>

\* lines 193-202: the stem convolution, inplanes, the empty block list
MobileBuildStem ==
    /\ pc = "m_stem"
    /\ conv1' = StemConv(args.in_channels, inplanes, args.scale)
    /\ created' = Append(created, conv1')
    /\ inplanes' = make_divisible(inplanes * args.scale)
    /\ block_list' = <<>>
    /\ pc' = "m_blocks"
    /\ UNCHANGED <<args, raised, divVars, cfg, cls_ch_squeeze, in_ch, stages,
                   conv2, self_out_channels, fwd, importVars>>

\* lines 203-212: one turn of  for layer_cfg in cfg
MobileBuildBlock ==
    /\ pc = "m_blocks"
    /\ Len(block_list) < Len(cfg)
    /\ LET layer_cfg == cfg[Len(block_list) + 1]
           block == BlockOfRow(inplanes, args.scale, layer_cfg)
       IN  /\ block_list' = Append(block_list, block)
           /\ created' = Append(created, block)
           /\ inplanes' = make_divisible(args.scale * layer_cfg.c)
    /\ UNCHANGED <<pc, args, raised, divVars, cfg, cls_ch_squeeze, in_ch, conv1,
                   stages, conv2, self_out_channels, fwd, importVars>>

\* lines 214-224: the head convolution, the pool, out_channels
MobileBuildHead ==
    /\ pc = "m_blocks"
    /\ Len(block_list) = Len(cfg)
    /\ conv2' = HeadConv(inplanes, args.scale, cls_ch_squeeze)
    /\ created' = created \o <<conv2', MaxPool2d(2, 2, 0)>>
    /\ self_out_channels' = make_divisible(args.scale * cls_ch_squeeze)
    /\ pc' = "built"
    /\ UNCHANGED <<args, raised, divVars, cfg, cls_ch_squeeze, inplanes, in_ch,
                   conv1, block_list, stages, fwd, importVars>>

\* lines 243-244: forward(x) on a (batch, in_channels, height, width)
\* input, through the stem
MobileForwardStem ==
    /\ pc = "built"
    /\ args.family = "mobile"
    /\ LET x == ConvBNACT_forward(conv1, Tensor(args.in_channels), "conv1")
       IN  fwd' = [status |-> x.status, c |-> x.c, units |-> <<>>, at |-> 0]
    /\ pc' = IF fwd'.status = "ok" THEN "m_forward" ELSE "forwarded"
    /\ UNCHANGED <<args, raised, divVars, cfg, cls_ch_squeeze, inplanes, in_ch,
                   created, conv1, block_list, stages, conv2, self_out_channels,
                   importVars>>

\* line 245: the next unit of self.block_list; fwd.units keeps the operators
\* each unit applied to its input
MobileForwardBlock ==
    /\ pc = "m_forward"
    /\ fwd.at < Len(block_list)
    /\ LET y == ResidualUnit_forward(block_list[fwd.at + 1], Tensor(fwd.c))
       IN  fwd' = [status |-> y.status, c |-> y.c,
                   units |-> Append(fwd.units, y.ops), at |-> fwd.at + 1]
    /\ pc' = IF fwd'.status = "ok" THEN "m_forward" ELSE "forwarded"
    /\ UNCHANGED <<args, raised, divVars, cfg, cls_ch_squeeze, inplanes, in_ch,
                   created, conv1, block_list, stages, conv2, self_out_channels,
                   importVars>>

\* lines 246-248: the head convolution, the pool, and the result
MobileForwardHead ==
    /\ pc = "m_forward"
    /\ fwd.at = Len(block_list)
    /\ LET y == ConvBNACT_forward(conv2, Tensor(fwd.c), "conv2")
       IN  fwd' = [fwd EXCEPT !.status = y.status, !.c = y.c]
    /\ pc' = "forwarded"
    /\ UNCHANGED <<args, raised, divVars, cfg, cls_ch_squeeze, inplanes, in_ch,
                   created, conv1, block_list, stages, conv2, self_out_channels,
                   importVars>>

(***************************************************************************)
(* Sub-modules (rec_resnet_vd.py)                                          *)
(***************************************************************************)
ConvBNACTNew(in_channels, out_channels, kernel_size, stride, groups, act) ==
    [kind |-> "ConvBNACTNew",
     pool |-> [kernel_size |-> stride, stride |-> stride, padding |-> 0,
               ceil_mode |-> TRUE],
     conv |-> [in_channels |-> in_channels, out_channels |-> out_channels,
               kernel_size |-> kernel_size, stride |-> PyInt(1),
               padding |-> (kernel_size - 1) \div 2, groups |-> groups,
               bias |-> FALSE],
     bn   |-> [num_features |-> out_channels],
     act  |-> IF act = "None" THEN "None" ELSE "ReLU"]

\* mutant: a block marked first whose shapes already match gets no projection
ShurtCut_no_first_branch(in_channels, out_channels, stride, if_first) ==
    [kind |-> "ShurtCut",
     conv |-> IF in_channels # out_channels \/ stride[1] # 1
              THEN IF if_first
                   THEN ConvBNACT(in_channels, out_channels, 1, stride, 0, 1, "None")
                   ELSE ConvBNACTNew(in_channels, out_channels, 1, stride, 1, "None")
              ELSE NoneModule]

ShurtCut(in_channels, out_channels, stride, if_first) ==
    [kind |-> "ShurtCut",
     conv |-> IF in_channels # out_channels \/ stride[1] # 1
              THEN IF if_first
                   THEN ConvBNACT(in_channels, out_channels, 1, stride, 0, 1, "None")
                   ELSE ConvBNACTNew(in_channels, out_channels, 1, stride, 1, "None")
              ELSE IF if_first
                   THEN ConvBNACT(in_channels, out_channels, 1, stride, 0, 1, "None")
                   ELSE NoneModule]

BasicBlock(in_channels, out_channels, stride, if_first) ==
    [kind  |-> "BasicBlock",
     conv0 |-> ConvBNACT(in_channels, out_channels, 3, stride, 1, 1, "relu"),
     conv1 |-> ConvBNACT(out_channels, out_channels, 3, PyInt(1), 1, 1, "None"),
     shortcut |-> ShurtCut(in_channels, out_channels, stride, if_first),
     stride |-> stride, if_first |-> if_first]

BottleneckBlock(in_channels, out_channels, stride, if_first) ==
    [kind  |-> "BottleneckBlock",
     conv0 |-> ConvBNACT(in_channels, out_channels, 1, PyInt(1), 0, 1, "relu"),
     conv1 |-> ConvBNACT(out_channels, out_channels, 3, stride, 1, 1, "relu"),
     conv2 |-> ConvBNACT(out_channels, out_channels * 4, 1, PyInt(1), 1, 1, "None"),
     shortcut |-> ShurtCut(in_channels, out_channels * 4, stride, if_first),
     stride |-> stride, if_first |-> if_first]

\* supported_layers
SupportedLayers == {18, 34, 50, 101, 152, 200}

DepthOf(layers) ==
    CASE layers = 18  -> <<2, 2, 2, 2>>
      [] layers = 34  -> <<3, 4, 6, 3>>
      [] layers = 50  -> <<3, 4, 6, 3>>
      [] layers = 101 -> <<3, 4, 23, 3>>
      [] layers = 152 -> <<3, 8, 36, 3>>
      [] layers = 200 -> <<3, 12, 48, 3>>

BlockClassOf(layers) ==
    IF layers \in {18, 34} THEN "BasicBlock" ELSE "BottleneckBlock"

num_filters == <<64, 128, 256, 512>>

NewBlock(block_class, in_channels, out_channels, stride, if_first) ==
    IF block_class = "BasicBlock"
    THEN BasicBlock(in_channels, out_channels, stride, if_first)
    ELSE BottleneckBlock(in_channels, out_channels, stride, if_first)

\* the stride the constructor loop gives block i of stage block
StrideOf(block, i) == IF i = 0 /\ block # 0 THEN PyPair(2, 1) ELSE PyPair(1, 1)

(***************************************************************************)
(* forward() of the ResNet sub-modules                                     *)
(***************************************************************************)
ConvBNACTNew_forward(m, x, name) ==
    IF x.status # "ok" THEN x
    ELSE IF x.c # m.conv.in_channels THEN Failed(x, "RuntimeError")
    ELSE [status |-> "ok", c |-> m.conv.out_channels, ops |-> Append(x.ops, name)]

ShurtCut_forward(m, x) ==
    IF m.conv.kind = "None" THEN x
    ELSE IF m.conv.kind = "ConvBNACT" THEN ConvBNACT_forward(m.conv, x, "shortcut")
    ELSE ConvBNACTNew_forward(m.conv, x, "shortcut")

BasicBlock_forward(b, x) ==
    LET y0 == ConvBNACT_forward(b.conv0, x, "conv0")
        y1 == ConvBNACT_forward(b.conv1, y0, "conv1")
        sc == ShurtCut_forward(b.shortcut, x)
    IN  IF y1.status # "ok" THEN y1
        ELSE IF sc.status # "ok" THEN sc
        ELSE IF y1.c # sc.c THEN Failed(y1, "RuntimeError")
        ELSE [y1 EXCEPT !.ops = Append(@, "add_shortcut")]

\* BottleneckBlock defines forwart, not forward: calling the block runs
\* nn.Module's default forward, which raises
BottleneckBlock_forward(b, x) == Failed(x, "NotImplementedError")

Block_forward(b, x) ==
    IF x.status # "ok" THEN x
    ELSE IF b.kind = "BasicBlock" THEN BasicBlock_forward(b, x)
    ELSE BottleneckBlock_forward(b, x)

\* the blocks of self.stages in the order forward() runs them
RECURSIVE Flatten(_)
Flatten(sts) == IF sts = <<>> THEN <<>> ELSE Head(sts) \o Flatten(Tail(sts))

\* the stem: self.conv1 (three convolutions), then self.pool1
ResNetStem_forward(x) ==
    LET x1 == ConvBNACT_forward(conv1.mods[1], x, "conv1.0")
        x2 == ConvBNACT_forward(conv1.mods[2], x1, "conv1.1")
    IN  ConvBNACT_forward(conv1.mods[3], x2, "conv1.2")

(***************************************************************************)
(* ResNet.__init__(in_channels, layers)                                    *)
(***************************************************************************)
LayersInputs == SupportedLayers \cup {0, 19, 100}

\* lines 88-98: assert layers in supported_layers
ResNetCheckLayers ==
    /\ pc = "r_layers"
    /\ IF args.layers \in SupportedLayers
       THEN pc' = "r_stem" /\ UNCHANGED raised
       ELSE pc' = "raised" /\ raised' = "AssertionError"
    /\ UNCHANGED <<args, divVars, buildVars, importVars>>

\* lines 100-117: the three-convolution stem (is_3x3), pool1, in_ch
ResNetBuildStem ==
    /\ pc = "r_stem"
    /\ conv1' = [kind |-> "Sequential",
                 mods |-> << ConvBNACT(args.in_channels, 32, 3, PyInt(1), 1, 1, "relu"),
                             ConvBNACT(32, 32, 3, PyInt(1), 1, 1, "relu"),
                             ConvBNACT(32, 64, 3, PyInt(1), 1, 1, "relu") >>]
    /\ created' = created \o <<conv1', MaxPool2d(3, 2, 1)>>
    /\ stages' = <<>>
    /\ block_list' = <<>>
    /\ in_ch' = 64
    /\ pc' = "r_blocks"
    /\ UNCHANGED <<args, raised, divVars, cfg, cls_ch_squeeze, inplanes, conv2,
                   self_out_channels, fwd, importVars>>

\* lines 120-126: one turn of the inner loop, block i of stage block
ResNetBuildBlock ==
    /\ pc = "r_blocks"
    /\ Len(stages) < Len(DepthOf(args.layers))
    /\ Len(block_list) < DepthOf(args.layers)[Len(stages) + 1]
    /\ LET block == Len(stages)
           i == Len(block_list)
           stride == StrideOf(block, i)
           b == NewBlock(BlockClassOf(args.layers), in_ch, num_filters[block + 1],
                         stride, block = i /\ i = 0)
       IN  /\ block_list' = Append(block_list, b)
           /\ created' = Append(created, b)
           /\ in_ch' = num_filters[block + 1]
    /\ UNCHANGED <<pc, args, raised, divVars, cfg, cls_ch_squeeze, inplanes,
                   conv1, stages, conv2, self_out_channels, fwd, importVars>>

\* lines 119, 127: the stage is closed and the next list opened
ResNetAppendStage ==
    /\ pc = "r_blocks"
    /\ Len(stages) < Len(DepthOf(args.layers))
    /\ Len(block_list) = DepthOf(args.layers)[Len(stages) + 1]
    /\ stages' = Append(stages, block_list)
    /\ block_list' = <<>>
    /\ UNCHANGED <<pc, args, raised, divVars, cfg, cls_ch_squeeze, inplanes,
                   in_ch, created, conv1, conv2, self_out_channels, fwd,
                   importVars>>

\* lines 128-129: out_channels and the closing pool
ResNetFinish ==
    /\ pc = "r_blocks"
    /\ Len(stages) = Len(DepthOf(args.layers))
    /\ self_out_channels' = in_ch
    /\ created' = Append(created, MaxPool2d(2, 2, 0))
    /\ pc' = "built"
    /\ UNCHANGED <<args, raised, divVars, cfg, cls_ch_squeeze, inplanes, in_ch,
                   conv1, block_list, stages, conv2, fwd, importVars>>

\* lines 131-133: forward(x) on a (batch, in_channels, height, width)
\* input, up to the first stage
ResNetForwardStem ==
    /\ pc = "built"
    /\ args.family = "resnet"
    /\ LET x == ResNetStem_forward(Tensor(args.in_channels))
       IN  fwd' = [status |-> x.status, c |-> x.c, units |-> <<>>, at |-> 0]
    /\ pc' = IF fwd'.status = "ok" THEN "r_forward" ELSE "forwarded"
    /\ UNCHANGED <<args, raised, divVars, cfg, cls_ch_squeeze, inplanes, in_ch,
                   created, conv1, block_list, stages, conv2, self_out_channels,
                   importVars>>

\* lines 134-135: the next block of  for stage in self.stages: x = stage(x)
ResNetForwardBlock ==
    /\ pc = "r_forward"
    /\ fwd.at < Len(Flatten(stages))
    /\ LET b == Flatten(stages)[fwd.at + 1]
           y == Block_forward(b, Tensor(fwd.c))
       IN  fwd' = [status |-> y.status, c |-> y.c, units |-> <<>>, at |-> fwd.at + 1]
    /\ pc' = IF fwd'.status = "ok" THEN "r_forward" ELSE "forwarded"
    /\ UNCHANGED <<args, raised, divVars, cfg, cls_ch_squeeze, inplanes, in_ch,
                   created, conv1, block_list, stages, conv2, self_out_channels,
                   importVars>>

\* lines 136-137: the closing pool, and the result
ResNetForwardOut ==
    /\ pc = "r_forward"
    /\ fwd.at = Len(Flatten(stages))
    /\ pc' = "forwarded"
    /\ UNCHANGED <<args, raised, divVars, buildVars, importVars>>

(***************************************************************************)
(* Specification Spec: construction, then one forward pass                 *)
(***************************************************************************)
BuildInit ==
    /\ \/ /\ pc = "m_name"
          /\ \E ic \in InChannels, mn \in ModelNames, sc \in Scales :
                args = [family |-> "mobile", in_channels |-> ic,
                        model_name |-> mn, scale |-> sc, layers |-> 0]
       \/ /\ pc = "r_layers"
          /\ \E ic \in InChannels, ly \in LayersInputs :
                args = [family |-> "resnet", in_channels |-> ic,
                        model_name |-> "none", scale |-> 0, layers |-> ly]
    /\ raised = "none"
    /\ v = 0 /\ new_v = 0
    /\ cfg = <<>> /\ cls_ch_squeeze = 0 /\ inplanes = 0 /\ in_ch = 0
    /\ created = <<>> /\ conv1 = NoneModule /\ block_list = <<>> /\ stages = <<>>
    /\ conv2 = NoneModule /\ self_out_channels = 0 /\ fwd = NoFwd
    /\ params = <<>> /\ call = NoCall /\ foreign_state = NoState
    /\ ipos = 0 /\ reads = {}

BuildNext ==
    \/ MobileSelectCfg
    \/ MobileCheckScale
    \/ MobileBuildStem
    \/ MobileBuildBlock
    \/ MobileBuildHead
    \/ MobileForwardStem
    \/ MobileForwardBlock
    \/ MobileForwardHead
    \/ ResNetCheckLayers
    \/ ResNetBuildStem
    \/ ResNetBuildBlock
    \/ ResNetAppendStage
    \/ ResNetFinish
    \/ ResNetForwardStem
    \/ ResNetForwardBlock
    \/ ResNetForwardOut

Spec == BuildInit /\ [][BuildNext]_vars

(***************************************************************************)
(* load_3rd_state_dict (RecMobileNetV3.py)                                 *)
(*                                                                         *)
(* A tensor is [src, bits]: src names where its elements come from (the    *)
(* foreign key it was stored under, or "init" for what the constructor     *)
(* put there) and bits is the elements' value counted in half units in     *)
(* the last place of single precision.  A foreign array may be double      *)
(* precision and hold an odd count; a single-precision tensor holds even   *)
(* counts only.  The foreign map _state is [keys, bits]: the keys it       *)
(* holds, each key k mapped to the array [src |-> k, bits |-> bits].       *)
(***************************************************************************)
InitTensor == [src |-> "init", bits |-> 0]

HasKey(st, k) == k \in st.keys
GetItem(st, k) == [src |-> k, bits |-> st.bits]

\* conversion to single precision, round half to even
RoundF32(n) ==
    IF n % 2 = 0 THEN n
    ELSE IF ((n - 1) \div 2) % 2 = 0 THEN n - 1 ELSE n + 1

\* torch.Tensor(array): a new tensor of the default (single precision) type
TorchTensor(t) == [src |-> t.src, bits |-> RoundF32(t.bits)]

\* The body of a unit's load_3rd_state_dict under 'paddle': pairs lists
\* <<state_dict name, foreign key suffix>> in the order the source reads
\* them.  A missing key raises KeyError at its read, before
\* self.load_state_dict is reached; otherwise load_state_dict copies every
\* collected tensor into the parameter of that name.
RECURSIVE CopyInto(_, _, _, _, _, _)
CopyInto(ps, path, st, name_prefix, pairs, i) ==
    IF i > Len(pairs) THEN ps
    ELSE CopyInto([ps EXCEPT ![path \o "." \o pairs[i][1]] =
                        TorchTensor(GetItem(st, name_prefix \o pairs[i][2]))],
                  path, st, name_prefix, pairs, i + 1)

LoadPairs(path, st, name_prefix, pairs, ps) ==
    LET key(i) == name_prefix \o pairs[i][2]
        missing == {i \in 1 .. Len(pairs) : ~HasKey(st, key(i))}
    IN  IF missing # {}
        THEN LET m == CHOOSE i \in missing : \A j \in missing : i <= j
             IN  [raised |-> "KeyError",
                  reads  |-> {key(i) : i \in 1 .. m},
                  params |-> ps]
        ELSE [raised |-> "none",
              reads  |-> {key(i) : i \in 1 .. Len(pairs)},
              params |-> CopyInto(ps, path, st, name_prefix, pairs, 1)]

NotLoaded(ps) == [raised |-> "none", reads |-> {}, params |-> ps]

\* mutant: the running mean and variance are read from each other's key
ConvBNACT_load_swapped(path, third_name, st, name_prefix, ps) ==
    IF third_name = "paddle"
    THEN LoadPairs(path, st, name_prefix,
                   << <<"conv.weight", "_weights">>,
                      <<"bn.weight", "_bn_scale">>,
                      <<"bn.bias", "_bn_offset">>,
                      <<"bn.running_mean", "_bn_variance">>,
                      <<"bn.running_var", "_bn_mean">> >>, ps)
    ELSE NotLoaded(ps)

ConvBNACT_load_3rd_state_dict(path, third_name, st, name_prefix, ps) ==
    IF third_name = "paddle"
    THEN LoadPairs(path, st, name_prefix,
                   << <<"conv.weight", "_weights">>,
                      <<"bn.weight", "_bn_scale">>,
                      <<"bn.bias", "_bn_offset">>,
                      <<"bn.running_mean", "_bn_mean">>,
                      <<"bn.running_var", "_bn_variance">> >>, ps)
    ELSE NotLoaded(ps)

\* mutant: the gate imports whatever the toolkit tag
SEBlock_load_any_tag(path, third_name, st, name_prefix, ps) ==
    LoadPairs(path, st, name_prefix,
                   << <<"conv1.weight", "_1_weights">>,
                      <<"conv2.weight", "_2_weights">>,
                      <<"conv1.bias", "_1_offset">>,
                      <<"conv2.bias", "_2_offset">> >>, ps)

SEBlock_load_3rd_state_dict(path, third_name, st, name_prefix, ps) ==
    IF third_name = "paddle"
    THEN LoadPairs(path, st, name_prefix,
                   << <<"conv1.weight", "_1_weights">>,
                      <<"conv2.weight", "_2_weights">>,
                      <<"conv1.bias", "_1_offset">>,
                      <<"conv2.bias", "_2_offset">> >>, ps)
    ELSE NotLoaded(ps)

\* one call of a leaf unit's load_3rd_state_dict
LeafCall(path, kind, name_prefix) ==
    [path |-> path, kind |-> kind, prefix |-> name_prefix]

\* mutant: the project convolution is imported before the gate
ResidualUnit_walk_linear_first(path, u, third_name, convolution_index) ==
    IF third_name = "paddle"
    THEN LET c == "conv" \o ToString(convolution_index)
         IN  << LeafCall(path \o ".conv0", "ConvBNACT", c \o "_expand"),
                LeafCall(path \o ".conv1", "ConvBNACT", c \o "_depthwise"),
                LeafCall(path \o ".conv2", "ConvBNACT", c \o "_linear") >>
             \o (IF u.se.kind # "None"
                 THEN << LeafCall(path \o ".se", "SEBlock", c \o "_se") >>
                 ELSE <<>>)
    ELSE <<>>

\* ResidualUnit.load_3rd_state_dict: the leaf calls it makes, in order
ResidualUnit_walk(path, u, third_name, convolution_index) ==
    IF third_name = "paddle"
    THEN LET c == "conv" \o ToString(convolution_index)
         IN  << LeafCall(path \o ".conv0", "ConvBNACT", c \o "_expand"),
                LeafCall(path \o ".conv1", "ConvBNACT", c \o "_depthwise") >>
             \o (IF u.se.kind # "None"
                 THEN << LeafCall(path \o ".se", "SEBlock", c \o "_se") >>
                 ELSE <<>>)
             \o << LeafCall(path \o ".conv2", "ConvBNACT", c \o "_linear") >>
    ELSE <<>>

BlockPath(k) == "block_list." \o ToString(k)

\* for m_block_index, m_block in enumerate(self.block_list, 2)
RECURSIVE BlocksWalk(_, _, _)
BlocksWalk(blocks, k, third_name) ==
    IF k >= Len(blocks) THEN <<>>
    ELSE ResidualUnit_walk(BlockPath(k), blocks[k + 1], third_name, k + 2)
         \o BlocksWalk(blocks, k + 1, third_name)

\* MobileNetV3.load_3rd_state_dict: the leaf calls it makes, in order
MobileNetV3_walk(third_name) ==
    IF third_name = "paddle"
    THEN << LeafCall("conv1", "ConvBNACT", "conv1") >>
         \o BlocksWalk(block_list, 0, third_name)
         \o << LeafCall("conv2", "ConvBNACT", "conv_last") >>
    ELSE <<>>

\* the leaf calls import call c makes, in order; StartCall keeps them in
\* call.walk
Walk(c) ==
    IF c.kind = "MobileNetV3" THEN MobileNetV3_walk(c.tag)
    ELSE IF c.kind = "ResidualUnit"
         THEN ResidualUnit_walk(c.path, block_list[c.k + 1], c.tag, c.index)
    ELSE << LeafCall(c.path, c.kind, c.prefix) >>

\* the constructed MobileNetV3: self.block_list
RECURSIVE BlocksFrom(_, _, _)
BlocksFrom(rows, inpl, scale) ==
    IF rows = <<>> THEN <<>>
    ELSE << BlockOfRow(inpl, scale, Head(rows)) >>
         \o BlocksFrom(Tail(rows), make_divisible(scale * Head(rows).c), scale)

\* the leaf units of the constructed graph, in construction order, each with
\* the prefix a paddle checkpoint of the architecture stores it under
UnitLeaves(k, u) ==
    LET c == "conv" \o ToString(k + 2)
        path == BlockPath(k)
    IN  << LeafCall(path \o ".conv0", "ConvBNACT", c \o "_expand"),
           LeafCall(path \o ".conv1", "ConvBNACT", c \o "_depthwise") >>
        \o (IF u.se.kind # "None"
            THEN << LeafCall(path \o ".se", "SEBlock", c \o "_se") >>
            ELSE <<>>)
        \o << LeafCall(path \o ".conv2", "ConvBNACT", c \o "_linear") >>

RECURSIVE BlockLeaves(_, _)
BlockLeaves(blocks, k) ==
    IF k >= Len(blocks) THEN <<>>
    ELSE UnitLeaves(k, blocks[k + 1]) \o BlockLeaves(blocks, k + 1)

ConstructionLeaves ==
    << LeafCall("conv1", "ConvBNACT", "conv1") >>
    \o BlockLeaves(block_list, 0)
    \o << LeafCall("conv2", "ConvBNACT", "conv_last") >>

\* what a paddle checkpoint stores for one unit under its prefix, as
\* <<parameter or running statistic of the unit, key suffix>>
PaddleConvPairs ==
    << <<"conv.weight", "_weights">>,
       <<"bn.weight", "_bn_scale">>,
       <<"bn.bias", "_bn_offset">>,
       <<"bn.running_mean", "_bn_mean">>,
       <<"bn.running_var", "_bn_variance">> >>

PaddleGatePairs ==
    << <<"conv1.weight", "_1_weights">>,
       <<"conv1.bias", "_1_offset">>,
       <<"conv2.weight", "_2_weights">>,
       <<"conv2.bias", "_2_offset">> >>

PairsOf(leaf) == IF leaf.kind = "SEBlock" THEN PaddleGatePairs ELSE PaddleConvPairs
ParamNamesOf(leaf) ==
    {leaf.path \o "." \o PairsOf(leaf)[i][1] : i \in 1 .. Len(PairsOf(leaf))}
KeysOf(leaf) ==
    {leaf.prefix \o PairsOf(leaf)[i][2] : i \in 1 .. Len(PairsOf(leaf))}
KeysOfAll(leaves) == UNION {KeysOf(leaves[i]) : i \in 1 .. Len(leaves)}
ParamNamesOfAll(leaves) == UNION {ParamNamesOf(leaves[i]) : i \in 1 .. Len(leaves)}

(***************************************************************************)
(* Specification SpecImport: one import call on a constructed MobileNetV3  *)
(***************************************************************************)
MaxBits == 1
Tags == {"paddle", "caffe"}

\* The foreign maps offered to a call: every key a checkpoint holds for the
\* units the call covers (drop = "(none)"), that map with the one key drop
\* removed, or the empty map (drop = "(all)").
Drops(all) == all \cup {"(none)", "(all)"}
StateWith(all, drop, b) ==
    [keys |-> IF drop = "(all)" THEN {} ELSE all \ {drop}, bits |-> b]

ImportInit ==
    /\ pc = "idle"
    /\ \E mn \in {"large", "small"}, sc \in ImportScales :
          /\ args = [family |-> "mobile", in_channels |-> 3,
                     model_name |-> mn, scale |-> sc, layers |-> 0]
          /\ cfg = CfgOf(mn)
          /\ cls_ch_squeeze = SqueezeOf(mn)
          /\ conv1 = StemConv(3, InitInplanes, sc)
          /\ block_list = BlocksFrom(CfgOf(mn), make_divisible(InitInplanes * sc), sc)
          /\ inplanes = make_divisible(sc * CfgOf(mn)[Len(CfgOf(mn))].c)
          /\ conv2 = HeadConv(inplanes, sc, cls_ch_squeeze)
          /\ self_out_channels = make_divisible(sc * cls_ch_squeeze)
    /\ created = <<conv1>> \o block_list \o <<conv2, MaxPool2d(2, 2, 0)>>
    /\ raised = "none"
    /\ v = 0 /\ new_v = 0 /\ in_ch = 0 /\ stages = <<>> /\ fwd = NoFwd
    /\ params = [p \in ParamNamesOfAll(ConstructionLeaves) |-> InitTensor]
    /\ call = NoCall /\ foreign_state = NoState /\ ipos = 0 /\ reads = {}

StartCall(c) ==
    /\ pc = "idle"
    /\ call' = [c EXCEPT !.walk = Walk(c)]
    /\ foreign_state' = c.state
    /\ ipos' = 1
    /\ reads' = {}
    /\ pc' = "loading"
    /\ UNCHANGED <<args, raised, divVars, buildVars, params>>

\* backbone.load_3rd_state_dict(tag, _state)
CallBackbone ==
    /\ pc = "idle"
    /\ LET all == KeysOfAll(ConstructionLeaves)
       IN  \E tag \in Tags, drop \in Drops(all), b \in 0 .. MaxBits :
             StartCall([kind |-> "MobileNetV3", path |-> "", k |-> 0,
                        index |-> 0, prefix |-> "", tag |-> tag,
                        state |-> StateWith(all, drop, b), walk |-> <<>>])

\* block_list[k].load_3rd_state_dict(tag, _state, k + 2)
CallResidualUnit ==
    /\ pc = "idle"
    /\ \E k \in 0 .. Len(block_list) - 1 :
         LET all == KeysOfAll(UnitLeaves(k, block_list[k + 1]))
         IN  \E tag \in Tags, drop \in Drops(all), b \in 0 .. MaxBits :
               StartCall([kind |-> "ResidualUnit", path |-> BlockPath(k),
                          k |-> k, index |-> k + 2, prefix |-> "", tag |-> tag,
                          state |-> StateWith(all, drop, b), walk |-> <<>>])

\* a leaf unit's load_3rd_state_dict(tag, _state, prefix)
CallLeaf ==
    /\ pc = "idle"
    /\ \E i \in 1 .. Len(ConstructionLeaves) :
         LET leaf == ConstructionLeaves[i]
             all == KeysOf(leaf)
         IN  \E tag \in Tags, drop \in Drops(all), b \in 0 .. MaxBits :
               StartCall([kind |-> leaf.kind, path |-> leaf.path, k |-> 0,
                          index |-> 0, prefix |-> leaf.prefix, tag |-> tag,
                          state |-> StateWith(all, drop, b), walk |-> <<>>])

\* the next leaf call of the walk
LoadLeaf ==
    /\ pc = "loading"
    /\ ipos <= Len(call.walk)
    /\ LET leaf == call.walk[ipos]
           r == IF leaf.kind = "SEBlock"
                THEN SEBlock_load_3rd_state_dict(leaf.path, call.tag, foreign_state,
                                                 leaf.prefix, params)
                ELSE ConvBNACT_load_3rd_state_dict(leaf.path, call.tag, foreign_state,
                                                   leaf.prefix, params)
       IN  /\ reads' = reads \cup r.reads
           /\ params' = r.params
           /\ IF r.raised = "none"
              THEN ipos' = ipos + 1 /\ UNCHANGED <<pc, raised>>
              ELSE pc' = "raised" /\ raised' = r.raised /\ UNCHANGED ipos
    /\ UNCHANGED <<args, divVars, buildVars, call, foreign_state>>

\* the walk is over: the call returns None
LoadReturn ==
    /\ pc = "loading"
    /\ ipos > Len(call.walk)
    /\ pc' = "returned"
    /\ UNCHANGED <<args, raised, divVars, buildVars, importVars>>

ImportNext ==
    \/ CallBackbone
    \/ CallResidualUnit
    \/ CallLeaf
    \/ LoadLeaf
    \/ LoadReturn

SpecImport == ImportInit /\ [][ImportNext]_vars

(***************************************************************************)
(* Claims checked under SpecDivisible                                      *)
(***************************************************************************)
Abs(n) == IF n < 0 THEN -n ELSE n

\* r is a multiple of 8 with no other multiple of 8 nearer to v = vh / 100
NearestMultipleOf8(r, vh) == r % 8 = 0 /\ Abs(100 * r - vh) <= 400

\* C2: for every v >= 0, make_divisible(v) is candidate = max(8, nearest
\* multiple of 8 to v), plus one step of 8 exactly when candidate < 0.9 * v;
\* the result is a positive multiple of 8 that is at least 0.9 * v, and
\* 16 -> 16, 17 -> 16, 5 -> 8, 4.1 -> 8, 8.9 -> 16.
C2_DivisibleRounding ==
    pc = "d_done" =>
        /\ \E q \in 0 .. (v \div 800 + 1) :
              LET candidate == Max(8, 8 * q)
              IN  /\ NearestMultipleOf8(8 * q, v)
                  /\ new_v = IF candidate * 1000 < 9 * v THEN candidate + 8
                             ELSE candidate
        /\ new_v > 0
        /\ new_v % 8 = 0
        /\ new_v * 1000 >= 9 * v
        /\ (v = 1600 => new_v = 16)
        /\ (v = 1700 => new_v = 16)
        /\ (v = 500 => new_v = 8)
        /\ (v = 410 => new_v = 8)
        /\ (v = 890 => new_v = 16)

\* the undershoot correction has fired: 8.9 rounds to 8, which is below 8.01
C2_Witness == pc = "d_done" /\ v = 890 /\ new_v = 16

(***************************************************************************)
(* Claims checked under Spec                                               *)
(***************************************************************************)
InvalidConfig ==
    \/ /\ args.family = "mobile"
       /\ \/ args.scale \notin {35, 50, 75, 100, 125}
          \/ args.model_name \notin {"large", "small"}
    \/ /\ args.family = "resnet"
       /\ args.layers \notin {18, 34, 50, 101, 152, 200}

\* C1: a constructor given an unsupported scale, model name or layers value
\* ends in a construction error, and no convolution unit, residual block or
\* pooling layer is ever created on the way.
C1_InvalidConfigBuildsNothing ==
    InvalidConfig =>
        /\ created = <<>>
        /\ conv1 = NoneModule /\ conv2 = NoneModule
        /\ block_list = <<>> /\ stages = <<>>
        /\ self_out_channels = 0
        /\ pc \in {"m_name", "m_scale", "r_layers", "raised"}
        /\ (pc = "raised" => raised \in {"NotImplementedError", "AssertionError"})
        /\ (pc # "raised" => ENABLED BuildNext)

\* an unsupported scale with a supported model name has been refused
C1_Witness ==
    /\ pc = "raised" /\ raised = "AssertionError"
    /\ args.family = "mobile" /\ args.scale = 60 /\ args.model_name = "small"
    /\ created = <<>>

ExpectedOutChannels(model_name, scale) ==
    IF model_name = "large"
    THEN CASE scale = 35 -> 336 [] scale = 50 -> 480 [] scale = 75 -> 720
           [] scale = 100 -> 960 [] scale = 125 -> 1200
    ELSE CASE scale = 35 -> 200 [] scale = 50 -> 288 [] scale = 75 -> 432
           [] scale = 100 -> 576 [] scale = 125 -> 720

\* C3: for every supported scale and both model names the MobileNetV3
\* constructor succeeds, and out_channels is the divisibility-rounded
\* scale * cls_ch_squeeze (960 large, 576 small), which is also the head
\* convolution's output channel count (480 for scale 0.5, "large").
C3_OutChannels ==
    (args.family = "mobile" /\ ~InvalidConfig) =>
        /\ raised = "none" /\ pc # "raised"
        /\ pc \in {"built", "forwarded"} =>
              LET squeeze == IF args.model_name = "large" THEN 960 ELSE 576
              IN  /\ self_out_channels = make_divisible(args.scale * squeeze)
                  /\ self_out_channels = ExpectedOutChannels(args.model_name, args.scale)
                  /\ conv2.conv.out_channels = self_out_channels
                  /\ conv2.bn.num_features = self_out_channels

C3_Witness ==
    /\ pc = "built" /\ args.family = "mobile"
    /\ args.model_name = "large" /\ args.scale = 50
    /\ self_out_channels = 480 /\ conv2.conv.out_channels = 480

\* the operators a residual unit applies before any shortcut
UnitChain(row) ==
    <<"conv0", "conv1">> \o (IF row.se THEN <<"se">> ELSE <<>>) \o <<"conv2">>

\* C4: a residual unit adds the identity shortcut iff num_in = num_out and
\* stride = 1; in every other case, and in every row of stride (2, 1), the
\* projected output is returned with no additive term.  For every row of
\* both tables at every supported scale.
C4_ShortcutIffShapeAndStride ==
    (args.family = "mobile" /\ pc = "forwarded") =>
        /\ fwd.status = "ok"
        /\ Len(fwd.units) = Len(CfgOf(args.model_name))
        /\ Len(block_list) = Len(CfgOf(args.model_name))
        /\ \A k \in 1 .. Len(block_list) :
              LET row == CfgOf(args.model_name)[k]
                  num_in == block_list[k].conv0.conv.in_channels
                  num_out == block_list[k].conv2.conv.out_channels
              IN  /\ fwd.units[k] =
                        IF num_in = num_out /\ row.s = PyInt(1)
                        THEN UnitChain(row) \o <<"add_x">>
                        ELSE UnitChain(row)
                  /\ (row.s = PyPair(2, 1) => fwd.units[k] = UnitChain(row))

\* a stride-(2, 1) row whose input and output widths coincide (8 and 8 at
\* scale 0.35) has run without the additive term
C4_Witness ==
    /\ pc = "forwarded" /\ args.family = "mobile"
    /\ args.model_name = "large" /\ args.scale = 35
    /\ block_list[2].conv0.conv.in_channels = block_list[2].conv2.conv.out_channels
    /\ fwd.units[2] = <<"conv0", "conv1", "conv2">>
    /\ fwd.units[3] = <<"conv0", "conv1", "conv2", "add_x">>

\* channels leaving a virtual-depth block
OutChannelsOf(b) ==
    IF b.kind = "BasicBlock" THEN b.conv1.conv.out_channels
    ELSE b.conv2.conv.out_channels

\* C8: for every supported layers value the first block takes the stem's 64
\* channels, each later block takes the output channel count of the block
\* before it, out_channels is the output channel count of the last block,
\* and forward(x) returns a tensor of out_channels channels.
C8_ChannelsPropagate ==
    (args.family = "resnet" /\ pc = "forwarded") =>
        LET blocks == Flatten(stages)
        IN  /\ blocks[1].conv0.conv.in_channels = 64
            /\ \A j \in 2 .. Len(blocks) :
                  blocks[j].conv0.conv.in_channels = OutChannelsOf(blocks[j - 1])
            /\ self_out_channels = OutChannelsOf(blocks[Len(blocks)])
            /\ fwd.status = "ok"
            /\ fwd.c = self_out_channels

\* C9: in the built ResNet (block 0 of stages 1..3 has stride (2, 1), every
\* other block (1, 1), only block 0 of stage 0 is marked first) a block's
\* shortcut is a direct-stride 1x1 projection iff it is block 0 of stage 0,
\* a pool-then-stride 1x1 projection iff it is not that block and
\* (in_channels # out_channels or stride # 1), and the identity iff
\* in_channels = out_channels, stride = 1 and the block is not marked first.
C9_ShortcutStrategy ==
    (args.family = "resnet" /\ pc \in {"built", "forwarded"}) =>
        \A s \in 1 .. Len(stages) : \A i \in 1 .. Len(stages[s]) :
            LET b == stages[s][i]
                sc == b.shortcut.conv
                first == (s = 1 /\ i = 1)
                cin == b.conv0.conv.in_channels
                cout == OutChannelsOf(b)
                unit_stride == (b.stride = PyPair(1, 1))
            IN  /\ b.stride = (IF i = 1 /\ s > 1 THEN PyPair(2, 1) ELSE PyPair(1, 1))
                /\ b.if_first = first
                /\ sc.kind \in {"ConvBNACT", "ConvBNACTNew", "None"}
                /\ sc.kind = "ConvBNACT" <=> first
                /\ sc.kind = "ConvBNACTNew" <=>
                      (~first /\ (cin # cout \/ ~unit_stride))
                /\ sc.kind = "None" <=> (cin = cout /\ unit_stride /\ ~b.if_first)
                /\ sc.kind # "None" =>
                      /\ sc.conv.kernel_size = 1 /\ sc.act = "None"
                      /\ sc.conv.in_channels = cin /\ sc.conv.out_channels = cout

\* all three strategies occur in one built graph
C9_Witness ==
    /\ pc = "built" /\ args.family = "resnet" /\ args.layers = 18
    /\ stages[1][1].shortcut.conv.kind = "ConvBNACT"
    /\ stages[1][2].shortcut.conv.kind = "None"
    /\ stages[2][1].shortcut.conv.kind = "ConvBNACTNew"

(***************************************************************************)
(* Claims checked under SpecImport                                         *)
(***************************************************************************)
ParamOf(leaf, i) == params[leaf.path \o "." \o PairsOf(leaf)[i][1]]
ForeignOf(leaf, i) == GetItem(call.state, leaf.prefix \o PairsOf(leaf)[i][2])

\* every parameter of the leaf holds the foreign tensor of its key, unchanged
LeafExact(leaf) ==
    \A i \in 1 .. Len(PairsOf(leaf)) : ParamOf(leaf, i) = ForeignOf(leaf, i)
\* ... holds the single-precision tensor made of the foreign tensor of its key
LeafLoaded(leaf) ==
    \A i \in 1 .. Len(PairsOf(leaf)) : ParamOf(leaf, i) = TorchTensor(ForeignOf(leaf, i))
\* ... holds its pre-import value
LeafUntouched(leaf) ==
    \A i \in 1 .. Len(PairsOf(leaf)) : ParamOf(leaf, i) = InitTensor
\* a key the leaf requires is absent from the foreign map
LeafMissing(leaf) == ~(KeysOf(leaf) \subseteq foreign_state.keys)

BackbonePaddleCall == call.kind = "MobileNetV3" /\ call.tag = "paddle"

CallLeaves ==
    IF call.kind = "MobileNetV3" THEN ConstructionLeaves
    ELSE IF call.kind = "ResidualUnit"
         THEN UnitLeaves(call.k, block_list[call.k + 1])
    ELSE << LeafCall(call.path, call.kind, call.prefix) >>

\* the residual units the call covers
CallUnits ==
    IF call.kind = "MobileNetV3" THEN 0 .. Len(block_list) - 1
    ELSE IF call.kind = "ResidualUnit" THEN {call.k}
    ELSE {}

\* the import has entered the leaf at place j of CallLeaves
Entered(j) == pc = "returned" \/ j <= ipos

\* C6: import is atomic per unit (normalized-convolution unit, gate,
\* residual unit): if a key the unit requires is absent, its import raises
\* and every parameter of the unit keeps its pre-import value; otherwise all
\* of the unit's keys are installed.
C6_PerUnitAtomic ==
    (call.tag = "paddle" /\ pc \in {"raised", "returned"}) =>
        /\ \A j \in 1 .. Len(CallLeaves) :
              Entered(j) =>
                  IF LeafMissing(CallLeaves[j])
                  THEN raised = "KeyError" /\ LeafUntouched(CallLeaves[j])
                  ELSE LeafLoaded(CallLeaves[j])
        /\ \A k \in CallUnits :
              LET unit == UnitLeaves(k, block_list[k + 1])
                  first == CHOOSE j \in 1 .. Len(CallLeaves) :
                               CallLeaves[j] = unit[1]
              IN  Entered(first) =>
                      IF \E i \in 1 .. Len(unit) : LeafMissing(unit[i])
                      THEN /\ raised = "KeyError"
                           /\ \A i \in 1 .. Len(unit) : LeafUntouched(unit[i])
                      ELSE \A i \in 1 .. Len(unit) : LeafLoaded(unit[i])

\* C7: an import call with an unknown toolkit tag is a no-op at every level:
\* it returns without error, reads no key of the foreign map and leaves
\* every parameter and running statistic unchanged, whatever the map holds.
C7_UnknownTagNoOp ==
    (pc \in {"loading", "returned", "raised"} /\ call.tag # "paddle") =>
        /\ pc # "raised" /\ raised = "none"
        /\ reads = {}
        /\ \A p \in DOMAIN params : params[p] = InitTensor
        /\ foreign_state = call.state
        /\ (pc = "loading" => ENABLED ImportNext)

\* the gate of a unit has served a call with an unknown tag and an empty map
C7_Witness ==
    /\ pc = "returned" /\ call.tag = "caffe"
    /\ call.kind = "SEBlock" /\ call.state.keys = {}
    /\ ipos = 2

\* C10: a backbone import under the supported tag installs units strictly in
\* construction order (stem, then each residual unit's expand, depthwise,
\* optional gate, project, then head) and stops at the first unit with a
\* missing key: every earlier unit holds its imported values, every later
\* unit its pre-import values, and the error reaches the caller.
C10_ConstructionOrderPrefix ==
    (BackbonePaddleCall /\ pc \in {"loading", "returned", "raised"}) =>
        LET L == ConstructionLeaves
            n == Len(L)
            loaded == [j \in 1 .. n |-> LeafLoaded(L[j])]
            untouched == [j \in 1 .. n |-> LeafUntouched(L[j])]
            bad == {j \in 1 .. n : LeafMissing(L[j])}
            k == Cardinality({j \in 1 .. n : loaded[j]})
        IN  /\ \A j \in 1 .. n : IF j <= k THEN loaded[j] ELSE untouched[j]
            /\ \A j \in bad : untouched[j]
            /\ pc = "raised" =>
                  /\ raised = "KeyError"
                  /\ bad # {}
                  /\ \A j \in 1 .. n :
                        IF \E b \in bad : b <= j THEN untouched[j] ELSE loaded[j]
            /\ pc = "returned" => bad = {}
            /\ (pc = "loading" /\ \A j \in 1 .. n : loaded[j]) => bad = {}

\* the import stopped at the gate of unit 3 (conv5_se): the units before it
\* are imported, the gate and the units after it are not
C10_Witness ==
    /\ BackbonePaddleCall /\ pc = "raised" /\ raised = "KeyError"
    /\ args.model_name = "large"
    /\ "conv5_se_2_offset" \notin foreign_state.keys
    /\ params["block_list.3.conv1.conv.weight"].src = "conv5_depthwise_weights"
    /\ params["block_list.3.se.conv1.weight"] = InitTensor
    /\ params["block_list.3.conv2.conv.weight"] = InitTensor
    /\ params["conv2.conv.weight"] = InitTensor

====
